---- MODULE Spec2Model ----
(***************************************************************************)
(* Model of forework/basetask.py: the task registry (find_tasks,           *)
(* find_tasks_by_filetype, the module-level _tasks_cache) and the BaseTask *)
(* contract (construction, can_handle, start/run, done, get_result,        *)
(* add_next_task, get_next_tasks, to_dict, to_json, from_dict).            *)
(*                                                                         *)
(* Python values are modelled as strings ("True", "False", "None", "1",    *)
(* ...), exceptions as the name of the exception class in the field err of *)
(* the record that describes the last call (variable last).                *)
(*                                                                         *)
(* What the model takes from outside basetask.py:                          *)
(*  - the package forework.tasks is a list of modules, each binding names  *)
(*    to objects; a class is bound under its own __name__ (a class         *)
(*    statement or a plain import) or under another name (import .. as),   *)
(*    and a module may bind a class that another module defines;           *)
(*  - the work routine run() of a concrete task stores a result, queues    *)
(*    follow-up tasks with add_next_task and then returns or raises; it    *)
(*    does not assign done; BaseTask.run itself raises;                    *)
(*  - concrete tasks keep the constructor of BaseTask, and the follow-up   *)
(*    tasks given to add_next_task are JSON-serializable.                  *)
(*                                                                         *)
(* SpecRegistry checks the registry, SpecTask the task instances.          *)
(***************************************************************************)
EXTENDS Integers, Sequences, FiniteSets, TLC

\* ------------------------------------------------------------------ bounds
\* most task classes the task modules bind, counted per module
MaxBindings == 3
\* most follow-up tasks queued, over all task instances
MaxNext == 2

\* --------------------------------------------------------------- constants
PRIO_LOW == -10
PRIO_NORMAL == 0
PRIO_HIGH == 10

PyNone == "None"
PyTrue == "True"
PyFalse == "False"
\* a string and a list as values a function returns
PyStr(x) == <<"str", x>>
PyList(x) == <<"list", x>>
\* what a call that raises returns
NoValue == <<"raise">>

Range(f) == {f[k] : k \in DOMAIN f}

\* ------------------------------------------------- the universe of objects
\* The objects a task module can bind to a name.  A and A2 are two distinct
\* task classes that are both called "A"; B derives from A and declares its
\* own MAGIC_PATTERN; N declares no MAGIC_PATTERN; Plain is a class that does
\* not derive from BaseTask; helper is a function; __doc__ is the module's
\* docstring.
Objects == {"BaseTask", "A", "A2", "B", "N", "Plain", "helper", "__doc__"}

\* cls.__name__
ObjName(o) == IF o = "A2" THEN "A" ELSE o

\* A module binds an object under the object's own name, written as the
\* object itself, or under another name, written as the alias: Q stands for
\* "from .. import A as Q".
Aliases == {"Q"}

\* the object a binding refers to
Bound(b) == IF b = "Q" THEN "A" ELSE b

\* the attribute name of a binding in its module
AttrName(b) == IF b \in Aliases THEN b ELSE ObjName(b)

\* dir() lists names in sorted order
NameOrder == <<"A", "B", "BaseTask", "N", "Plain", "Q", "__doc__", "helper">>

\* type(o)
PyType(o) == CASE o = "helper" -> "function"
               [] o = "__doc__" -> "str"
               [] OTHER -> "type"

\* the base class of a class
Parent(o) == CASE o = "B" -> "A"
               [] o \in {"A", "A2", "N"} -> "BaseTask"
               [] OTHER -> "object"

\* issubclass(o, BaseTask)
RECURSIVE issubclass_BaseTask(_)
issubclass_BaseTask(o) ==
    IF o = "BaseTask" THEN TRUE
    ELSE IF o = "object" \/ PyType(o) # "type" THEN FALSE
    ELSE issubclass_BaseTask(Parent(o))

\* the concrete task classes
TaskClasses == {o \in Objects : PyType(o) = "type" /\ o # "BaseTask"
                                /\ issubclass_BaseTask(o)}

\* Patterns are a literal prefix, optionally followed by "$"; file types are
\* sequences of tokens.
PatImageAny == [lit |-> <<"image">>, eol |-> FALSE]
PatJpegOnly == [lit |-> <<"image", "jpeg">>, eol |-> TRUE]
PatJpegAny == [lit |-> <<"image", "jpeg">>, eol |-> FALSE]
NoPattern == [lit |-> <<"None">>, eol |-> FALSE]

Filetypes == {<<"image", "jpeg">>, <<"image", "jpeg", "charset">>,
              <<"app", "pdf">>}

\* MAGIC_PATTERN as written in the class body (NoPattern: not written)
OwnPattern(c) == CASE c = "A" -> PatImageAny
                   [] c = "B" -> PatJpegOnly
                   [] c = "A2" -> PatJpegAny
                   [] OTHER -> NoPattern

\* cls.MAGIC_PATTERN: attribute lookup along the base classes
RECURSIVE MAGIC_PATTERN(_)
MAGIC_PATTERN(c) ==
    IF c \in {"BaseTask", "object"} THEN NoPattern
    ELSE IF OwnPattern(c) # NoPattern THEN OwnPattern(c)
    ELSE MAGIC_PATTERN(Parent(c))

\* re.compile(p).match(s): the pattern matches at the start of s
re_match(p, s) ==
    /\ Len(p.lit) <= Len(s)
    /\ SubSeq(s, 1, Len(p.lit)) = p.lit
    /\ (p.eol => Len(s) = Len(p.lit))

\* ------------------------------------------------------------------- state
VARIABLES
    modules,             \* forework.tasks: module number -> its bindings
    ENABLE_TASKS_CACHE,  \* config.ENABLE_TASKS_CACHE
    tasks_cache,         \* the module-level _tasks_cache
    rx,                  \* class -> the _rx stored on that class itself
    discover_called,     \* find_tasks has been called since process start
    inst,                \* the task instances
    last                 \* the last call and what its caller observed

vars == <<modules, ENABLE_TASKS_CACHE, tasks_cache, rx, discover_called,
          inst, last>>

\* the task modules of the package forework.tasks, in dir()'s order
Mods == {1, 2}
CacheNone == <<"None">>
CacheOf(ts) == <<"list", ts>>

\* ---------------------------------------------------------------- registry
IsDunder(n) == n \in {"__doc__"}

\* dir(module) without the names that start with "__", in dir()'s order
classes(m) ==
    SelectSeq(NameOrder, LAMBDA n : /\ \E b \in modules[m] : AttrName(b) = n
                                    /\ ~IsDunder(n))

getattr(m, n) == Bound(CHOOSE b \in modules[m] : AttrName(b) = n)

\* mutant of is_task: the name given to find_tasks is not compared
is_task_any_name(m, classname, name) ==
    /\ PyType(getattr(m, classname)) = "type"
    /\ getattr(m, classname) # "BaseTask"
    /\ issubclass_BaseTask(getattr(m, classname))

\* the test of one name of one module in the scan of find_tasks
is_task(m, classname, name) ==
    /\ (classname = name \/ name = PyNone)
    /\ PyType(getattr(m, classname)) = "type"
    /\ getattr(m, classname) # "BaseTask"
    /\ issubclass_BaseTask(getattr(m, classname))

RECURSIVE collect(_, _, _)
collect(m, names, name) ==
    IF names = <<>> THEN <<>>
    ELSE (IF is_task(m, Head(names), name)
          THEN <<getattr(m, Head(names))>> ELSE <<>>)
         \o collect(m, Tail(names), name)

\* the scan of find_tasks: modules in order, names in order
RECURSIVE scan_from(_, _)
scan_from(m, name) ==
    IF m \notin Mods THEN <<>>
    ELSE collect(m, classes(m), name) \o scan_from(m + 1, name)

scan(name) == scan_from(1, name)

\* find_tasks(name, rebuild_cache): what it returns or raises.  The function
\* reads _tasks_cache and never assigns it.
find_tasks(name, rebuild_cache) ==
    IF ENABLE_TASKS_CACHE /\ ~rebuild_cache /\ tasks_cache # CacheNone
    THEN [err |-> "none", ret |-> tasks_cache[2]]
    ELSE LET tasks == scan(name)
         IN IF name # PyNone /\ Len(tasks) \notin {0, 1}
            THEN [err |-> "AssertionError", ret |-> <<>>]
            ELSE [err |-> "none", ret |-> tasks]

\* the value of _tasks_cache after a call of find_tasks
tasks_cache_after(name, rebuild_cache) == tasks_cache

\* ------------------------------------------------------------- can_handle
\* cls._rx: attribute lookup along the base classes
RECURSIVE lookup_rx(_, _)
lookup_rx(c, r) ==
    IF c \in {"BaseTask", "object"} THEN NoPattern
    ELSE IF r[c] # NoPattern THEN r[c]
    ELSE lookup_rx(Parent(c), r)

\* mutant of can_handle: a class without MAGIC_PATTERN matches nothing
can_handle_no_match(c, magic_string, r) ==
    IF MAGIC_PATTERN(c) = NoPattern
    THEN [err |-> "none", ret |-> FALSE, rx |-> r]
    ELSE LET r1 == IF lookup_rx(c, r) = NoPattern
                   THEN [r EXCEPT ![c] = MAGIC_PATTERN(c)] ELSE r
         IN [err |-> "none", ret |-> re_match(lookup_rx(c, r1), magic_string),
             rx |-> r1]

\* cls.can_handle(magic_string) with the _rx attributes r: the error, the
\* value and the _rx attributes afterwards
can_handle(c, magic_string, r) ==
    IF MAGIC_PATTERN(c) = NoPattern
    THEN [err |-> "AttributeError", ret |-> FALSE, rx |-> r]
    ELSE LET r1 == IF lookup_rx(c, r) = NoPattern
                   THEN [r EXCEPT ![c] = MAGIC_PATTERN(c)] ELSE r
         IN [err |-> "none", ret |-> re_match(lookup_rx(c, r1), magic_string),
             rx |-> r1]

\* mutant of returns_first: the loop goes on after a match
returns_first_never(matched, first_only) == FALSE

\* find_tasks_by_filetype returns at once on a match when first_only is set
returns_first(matched, first_only) == matched /\ first_only

\* the value find_tasks_by_filetype returns when its loop ends
return_suitable(suitable_tasks) == suitable_tasks

\* what a spy on can_handle sees of one call
spied(c, h) ==
    [cls |-> c,
     ret |-> IF h.err # "none" THEN "raise"
             ELSE IF h.ret THEN PyTrue ELSE PyFalse]

\* the loop of find_tasks_by_filetype over all_tasks from position i on;
\* invoked lists the can_handle calls it makes
RECURSIVE filetype_loop(_, _, _, _, _, _)
filetype_loop(all_tasks, i, filetype, first_only, r, acc) ==
    IF i > Len(all_tasks)
    THEN [err |-> "none", ret |-> PyList(return_suitable(acc.suitable)),
          rx |-> r, invoked |-> acc.invoked]
    ELSE LET h == can_handle(all_tasks[i], filetype, r)
             inv == Append(acc.invoked, spied(all_tasks[i], h))
         IN IF h.err # "none"
            THEN [err |-> h.err, ret |-> NoValue, rx |-> h.rx,
                  invoked |-> inv]
            ELSE IF returns_first(h.ret, first_only)
            THEN [err |-> "none", ret |-> PyStr(ObjName(all_tasks[i])),
                  rx |-> h.rx, invoked |-> inv]
            ELSE filetype_loop(all_tasks, i + 1, filetype, first_only, h.rx,
                    [suitable |-> IF h.ret
                                  THEN Append(acc.suitable,
                                              ObjName(all_tasks[i]))
                                  ELSE acc.suitable,
                     invoked |-> inv])

\* find_tasks_by_filetype(filetype, first_only)
find_tasks_by_filetype(filetype, first_only) ==
    LET all == find_tasks(PyNone, FALSE)
    IN IF all.err # "none"
       THEN [err |-> all.err, ret |-> NoValue, rx |-> rx, invoked |-> <<>>,
             all_tasks |-> <<>>]
       ELSE LET l == filetype_loop(all.ret, 1, filetype, first_only, rx,
                                   [suitable |-> <<>>, invoked |-> <<>>])
            IN [err |-> l.err, ret |-> l.ret, rx |-> l.rx,
                invoked |-> l.invoked, all_tasks |-> all.ret]

\* ------------------------------------------------------------------- Init
\* every task module has a docstring and imports BaseTask; the first one
\* also binds a function and the second one a class that is no task
BareModule(m) == {"__doc__", "BaseTask"}
                 \cup (IF m = 1 THEN {"helper"} ELSE {"Plain"})

\* the bindings of module m that refer to a task class
Bindings(m) == {b \in modules[m] : Bound(b) \in TaskClasses}

\* the package at start-up: no task; A and B in a module each; B in a module
\* that imports A from the first module; B in a module that imports A as Q
InitModules ==
    { [m \in Mods |-> BareModule(m)],
      [m \in Mods |-> BareModule(m) \cup (IF m = 1 THEN {"A"} ELSE {"B"})],
      [m \in Mods |-> BareModule(m)
                      \cup (IF m = 1 THEN {"A"} ELSE {"A", "B"})],
      [m \in Mods |-> BareModule(m)
                      \cup (IF m = 1 THEN {"A"} ELSE {"Q", "B"})] }

\* an empty slot for a task instance
NoInst == [cls |-> "none", name |-> "none", path |-> "none", done |-> "none",
           result |-> "none", priority |-> 0, next_tasks |-> <<>>,
           pc |-> "none"]
Instances == {1, 2}

Init ==
    /\ modules \in InitModules
    /\ ENABLE_TASKS_CACHE \in BOOLEAN
    /\ tasks_cache = CacheNone
    /\ rx = [c \in TaskClasses |-> NoPattern]
    /\ discover_called = FALSE
    /\ inst = [i \in Instances |-> NoInst]
    /\ last = [op |-> "none"]

\* no start() is in progress: the program is single-threaded, so the caller
\* makes its next call only when the previous one has returned
Idle == \A i \in Instances : inst[i].pc \in {"none", "idle"}

\* ------------------------------------------------------- registry actions
Registered == UNION {{<<m, o>> : o \in Bindings(m)} : m \in Mods}

\* a task module gets a new binding b (a class is defined or imported)
Register(m, b) ==
    /\ Idle
    /\ Cardinality(Registered) < MaxBindings
    /\ Bound(b) \in TaskClasses
    /\ \A x \in modules[m] : AttrName(x) # AttrName(b)
    /\ modules' = [modules EXCEPT ![m] = @ \cup {b}]
    /\ last' = [op |-> "register", m |-> m, obj |-> Bound(b),
                new |-> \A k \in Mods : \A x \in modules[k] :
                           Bound(x) # Bound(b)]
    /\ UNCHANGED <<ENABLE_TASKS_CACHE, tasks_cache, rx, discover_called, inst>>

FindTasks(name, rebuild_cache) ==
    /\ Idle
    /\ tasks_cache' = tasks_cache_after(name, rebuild_cache)
    /\ discover_called' = TRUE
    /\ \E f \in {find_tasks(name, rebuild_cache)} :
          last' = [op |-> "find_tasks", name |-> name,
                   rebuild_cache |-> rebuild_cache, err |-> f.err,
                   ret |-> f.ret]
    /\ UNCHANGED <<modules, ENABLE_TASKS_CACHE, rx, inst>>

FindTasksByFiletype(filetype, first_only) ==
    /\ Idle
    /\ \E f \in {find_tasks_by_filetype(filetype, first_only)} :
          /\ rx' = f.rx
          /\ last' = [op |-> "find_tasks_by_filetype", filetype |-> filetype,
                      first_only |-> first_only, err |-> f.err, ret |-> f.ret,
                      invoked |-> f.invoked, all_tasks |-> f.all_tasks]
    /\ tasks_cache' = tasks_cache_after(PyNone, FALSE)
    /\ discover_called' = TRUE
    /\ UNCHANGED <<modules, ENABLE_TASKS_CACHE, inst>>

CanHandle(c, magic_string) ==
    /\ Idle
    /\ \E m \in Mods : \E b \in modules[m] : Bound(b) = c
    /\ \E h \in {can_handle(c, magic_string, rx)} :
          /\ rx' = h.rx
          /\ last' = [op |-> "can_handle", cls |-> c,
                      magic_string |-> magic_string, err |-> h.err,
                      ret |-> h.ret]
    /\ UNCHANGED <<modules, ENABLE_TASKS_CACHE, tasks_cache, discover_called,
                   inst>>

Names == {"A", "B", "Plain", "Q"}

NextRegistry ==
    \/ \E m \in Mods, b \in TaskClasses \cup Aliases : Register(m, b)
    \/ \E name \in Names \cup {PyNone}, rebuild_cache \in BOOLEAN :
          FindTasks(name, rebuild_cache)
    \/ \E filetype \in Filetypes, first_only \in BOOLEAN :
          FindTasksByFiletype(filetype, first_only)
    \/ \E c \in TaskClasses, magic_string \in Filetypes :
          CanHandle(c, magic_string)

SpecRegistry == Init /\ [][NextRegistry]_vars

\* ---------------------------------------------------------- task instances
\* the (path, priority) pairs a caller constructs tasks with
CtorArgs == {<<"/a", PRIO_NORMAL>>, <<"/b", PRIO_HIGH>>}
\* the classes the model instantiates
CtorClasses == {"A", "B"}
\* the values a work routine stores as result
ResultVals == {"r1"}
\* the follow-up tasks a work routine queues
NextItems == {"t1", "t2"}
\* the values a caller assigns to done
DoneValues == {PyTrue, PyFalse, "1"}

\* type(value) for a value
type_of(value) == CASE value \in {PyTrue, PyFalse} -> "bool"
                    [] value = PyNone -> "NoneType"
                    [] value \in {"0", "1"} -> "int"
                    [] OTHER -> "str"

\* bool(value)
truthy(value) == value \notin {PyFalse, PyNone, "0", ""}

\* json.dumps(x): the JSON text of x
json_dumps(x) == <<"json", x>>

\* BaseTask.__init__(self, path, priority) for an instance of class cls
init(cls, path, priority) ==
    [cls |-> cls, name |-> ObjName(cls), path |-> path, done |-> PyFalse,
     result |-> PyNone, priority |-> priority, next_tasks |-> <<>>,
     pc |-> "idle"]

\* mutant of done_setter: the type of the value is not checked
done_setter_unchecked(self, value) ==
    [err |-> "none", self |-> [self EXCEPT !.done = value]]

\* the setter of the property done
done_setter(self, value) ==
    IF type_of(value) # "bool"
    THEN [err |-> "Exception", self |-> self]
    ELSE [err |-> "none", self |-> [self EXCEPT !.done = value]]

\* mutant of get_result: the result is returned whatever done is
get_result_ungated(self) ==
    [err |-> "none", ret |-> self.result, self |-> self]

\* BaseTask.get_result(self)
get_result(self) ==
    [err |-> "none",
     ret |-> IF truthy(self.done) THEN self.result ELSE PyNone,
     self |-> self]

\* mutant of add_next_task: queueing a follow-up clears done
add_next_task_resets(self, jsondata) ==
    [self EXCEPT !.next_tasks = Append(@, jsondata), !.done = PyFalse]

\* mutant of add_next_task: the follow-up is put at the head of the queue
add_next_task_front(self, jsondata) ==
    [self EXCEPT !.next_tasks = <<jsondata>> \o @]

\* BaseTask.add_next_task(self, jsondata)
add_next_task(self, jsondata) ==
    [self EXCEPT !.next_tasks = Append(@, jsondata)]

\* BaseTask.get_next_tasks(self)
get_next_tasks(self) ==
    [ret |-> [k \in 1 .. Len(self.next_tasks) |->
                json_dumps(self.next_tasks[k])],
     self |-> self]

\* BaseTask.to_dict(self)
to_dict(self) ==
    [ret |-> [name |-> self.name,
              path |-> self.path,
              completed |-> self.done,
              priority |-> self.priority,
              result |-> get_result(self).ret,
              next_tasks |-> get_next_tasks(self).ret],
     self |-> get_next_tasks(get_result(self).self).self]

\* mutant of start_enter: done is left as it was when start is called
start_enter_keeps(self) == [self EXCEPT !.pc = "running"]

\* mutant of start_enter: the reset also clears the path
start_enter_clears_path(self) ==
    [self EXCEPT !.done = PyFalse, !.path = PyNone, !.pc = "running"]

\* BaseTask.to_json(self)
to_json(self) ==
    [ret |-> json_dumps(to_dict(self).ret), self |-> to_dict(self).self]

\* BaseTask.start(self) up to the call of run
start_enter(self) == [self EXCEPT !.done = PyFalse, !.pc = "running"]

\* mutant of start_return: done is not set when run has returned
start_return_unflagged(self) == [self EXCEPT !.pc = "idle"]

\* BaseTask.start(self) after run has returned
start_return(self) == [self EXCEPT !.done = PyTrue, !.pc = "idle"]

\* BaseTask.start(self) when run raises exc: the exception leaves start
start_raise(self, exc) == [err |-> exc, self |-> [self EXCEPT !.pc = "idle"]]

\* dict.get(key, default)
dict_get(d, key, default) == IF key \in DOMAIN d THEN d[key] ELSE default

\* mutant of from_dict: the follow-up tasks of the dict are queued again
from_dict_replays(taskdict) ==
    LET found == find_tasks(taskdict.name, FALSE)
    IN IF found.err # "none" THEN [err |-> found.err, self |-> NoInst]
       ELSE IF Len(found.ret) = 0 THEN [err |-> "IndexError", self |-> NoInst]
       ELSE IF dict_get(taskdict, "args", <<>>) # <<>>
       THEN [err |-> "TypeError", self |-> NoInst]
       ELSE LET task == init(found.ret[1], taskdict.path,
                             dict_get(taskdict, "priority", PRIO_NORMAL))
                set == done_setter(task,
                                   dict_get(taskdict, "completed", PyFalse))
            IN IF set.err # "none" THEN [err |-> set.err, self |-> NoInst]
               ELSE [err |-> "none",
                     self |-> [set.self EXCEPT
                                 !.result =
                                    dict_get(taskdict, "result", PyNone),
                                 !.next_tasks =
                                    dict_get(taskdict, "next_tasks", <<>>)]]

\* BaseTask.from_dict(taskdict): the error, or the instance it returns
from_dict(taskdict) ==
    LET found == find_tasks(taskdict.name, FALSE)
    IN IF found.err # "none" THEN [err |-> found.err, self |-> NoInst]
       ELSE IF Len(found.ret) = 0 THEN [err |-> "IndexError", self |-> NoInst]
       ELSE IF dict_get(taskdict, "args", <<>>) # <<>>
       THEN [err |-> "TypeError", self |-> NoInst]
       ELSE LET task == init(found.ret[1], taskdict.path,
                             dict_get(taskdict, "priority", PRIO_NORMAL))
                set == done_setter(task,
                                   dict_get(taskdict, "completed", PyFalse))
            IN IF set.err # "none" THEN [err |-> set.err, self |-> NoInst]
               ELSE [err |-> "none",
                     self |-> [set.self EXCEPT !.result =
                                 dict_get(taskdict, "result", PyNone)]]

\* dicts a caller writes by hand
HandDicts ==
    { [name |-> "A", path |-> "/a"],
      [name |-> "B", path |-> "/b", completed |-> PyFalse,
       priority |-> PRIO_HIGH, result |-> "r1",
       next_tasks |-> <<json_dumps("t1")>>],
      [name |-> "B", path |-> "/a", completed |-> "1"],
      [name |-> "Plain", path |-> "/a"],
      [name |-> "B", path |-> "/a", args |-> <<"x">>],
      [name |-> "Q", path |-> "/a"] }

\* ----------------------------------------------------------- task actions
\* the follow-up tasks queued so far
Queued == Len(inst[1].next_tasks) + Len(inst[2].next_tasks)

New(i, cls, path, priority) ==
    /\ Idle
    /\ inst[i] = NoInst
    /\ inst' = [inst EXCEPT ![i] = init(cls, path, priority)]
    /\ last' = [op |-> "new", i |-> i, err |-> "none"]
    /\ UNCHANGED <<modules, ENABLE_TASKS_CACHE, tasks_cache, rx,
                   discover_called>>

\* from_dict(taskdict), the result kept in the empty slot j; src is the
\* instance whose to_dict() the caller passed, 0 for a hand-written dict
FromDict(taskdict, j, src) ==
    /\ Idle
    /\ inst[j] = NoInst
    /\ \E t \in {from_dict(taskdict)} :
          /\ inst' = [inst EXCEPT ![j] = t.self]
          /\ last' = [op |-> "from_dict", i |-> j, src |-> src,
                      taskdict |-> taskdict, err |-> t.err]
    /\ tasks_cache' = tasks_cache_after(taskdict.name, FALSE)
    /\ discover_called' = TRUE
    /\ UNCHANGED <<modules, ENABLE_TASKS_CACHE, rx>>

FromDictOfInstance(i, j) ==
    /\ inst[i] # NoInst
    /\ i # j
    /\ FromDict(to_dict(inst[i]).ret, j, i)

FromDictByHand(taskdict, j) == FromDict(taskdict, j, 0)

SetDone(i, value) ==
    /\ Idle
    /\ inst[i] # NoInst
    /\ inst' = [inst EXCEPT ![i] = done_setter(inst[i], value).self]
    /\ last' = [op |-> "done=", i |-> i, value |-> value,
                err |-> done_setter(inst[i], value).err]
    /\ UNCHANGED <<modules, ENABLE_TASKS_CACHE, tasks_cache, rx,
                   discover_called>>

GetResult(i) ==
    /\ Idle
    /\ inst[i] # NoInst
    /\ inst' = [inst EXCEPT ![i] = get_result(inst[i]).self]
    /\ last' = [op |-> "get_result", i |-> i,
                err |-> get_result(inst[i]).err]
    /\ UNCHANGED <<modules, ENABLE_TASKS_CACHE, tasks_cache, rx,
                   discover_called>>

AddNextTask(i, jsondata) ==
    /\ Idle
    /\ inst[i] # NoInst
    /\ Queued < MaxNext
    /\ inst' = [inst EXCEPT ![i] = add_next_task(inst[i], jsondata)]
    /\ last' = [op |-> "add_next_task", i |-> i, err |-> "none"]
    /\ UNCHANGED <<modules, ENABLE_TASKS_CACHE, tasks_cache, rx,
                   discover_called>>

GetNextTasks(i) ==
    /\ Idle
    /\ inst[i] # NoInst
    /\ inst' = [inst EXCEPT ![i] = get_next_tasks(inst[i]).self]
    /\ last' = [op |-> "get_next_tasks", i |-> i, err |-> "none"]
    /\ UNCHANGED <<modules, ENABLE_TASKS_CACHE, tasks_cache, rx,
                   discover_called>>

ToDict(i) ==
    /\ Idle
    /\ inst[i] # NoInst
    /\ inst' = [inst EXCEPT ![i] = to_dict(inst[i]).self]
    /\ last' = [op |-> "to_dict", i |-> i, err |-> "none"]
    /\ UNCHANGED <<modules, ENABLE_TASKS_CACHE, tasks_cache, rx,
                   discover_called>>

ToJson(i) ==
    /\ Idle
    /\ inst[i] # NoInst
    /\ inst' = [inst EXCEPT ![i] = to_json(inst[i]).self]
    /\ last' = [op |-> "to_json", i |-> i, err |-> "none"]
    /\ UNCHANGED <<modules, ENABLE_TASKS_CACHE, tasks_cache, rx,
                   discover_called>>

\* start() is called: it clears done and calls run; prior is the value of
\* done the caller saw before the call
Start(i) ==
    /\ Idle
    /\ inst[i] # NoInst
    /\ inst' = [inst EXCEPT ![i] = start_enter(inst[i])]
    /\ last' = [op |-> "start", i |-> i, err |-> "running",
                prior |-> inst[i].done]
    /\ UNCHANGED <<modules, ENABLE_TASKS_CACHE, tasks_cache, rx,
                   discover_called>>

\* the work routine stores a result
RunStoreResult(i, r) ==
    /\ inst[i].pc = "running"
    /\ inst[i].result # r
    /\ inst' = [inst EXCEPT ![i].result = r]
    /\ UNCHANGED <<modules, ENABLE_TASKS_CACHE, tasks_cache, rx,
                   discover_called, last>>

\* the work routine queues a follow-up task
RunAddNextTask(i, jsondata) ==
    /\ inst[i].pc = "running"
    /\ Queued < MaxNext
    /\ inst' = [inst EXCEPT ![i] = add_next_task(inst[i], jsondata)]
    /\ UNCHANGED <<modules, ENABLE_TASKS_CACHE, tasks_cache, rx,
                   discover_called, last>>

\* the work routine returns and start() ends: it returns self
RunReturn(i) ==
    /\ inst[i].pc = "running"
    /\ inst' = [inst EXCEPT ![i] = start_return(inst[i])]
    /\ last' = [op |-> "start", i |-> i, err |-> "none", prior |-> last.prior,
                ret |-> i]
    /\ UNCHANGED <<modules, ENABLE_TASKS_CACHE, tasks_cache, rx,
                   discover_called>>

\* the work routine raises (BaseTask.run itself raises NotImplementedError)
RunRaise(i) ==
    /\ inst[i].pc = "running"
    /\ inst' = [inst EXCEPT ![i] =
                  start_raise(inst[i], "NotImplementedError").self]
    /\ last' = [op |-> "start", i |-> i,
                err |-> start_raise(inst[i], "NotImplementedError").err,
                prior |-> last.prior]
    /\ UNCHANGED <<modules, ENABLE_TASKS_CACHE, tasks_cache, rx,
                   discover_called>>

NextTask ==
    \/ \E i \in Instances, cls \in CtorClasses, a \in CtorArgs :
          New(i, cls, a[1], a[2])
    \/ \E i, j \in Instances : FromDictOfInstance(i, j)
    \/ \E taskdict \in HandDicts, j \in Instances :
          FromDictByHand(taskdict, j)
    \/ \E i \in Instances, value \in DoneValues : SetDone(i, value)
    \/ \E i \in Instances : GetResult(i)
    \/ \E i \in Instances, jsondata \in NextItems : AddNextTask(i, jsondata)
    \/ \E i \in Instances : GetNextTasks(i)
    \/ \E i \in Instances : ToDict(i)
    \/ \E i \in Instances : ToJson(i)
    \/ \E i \in Instances : Start(i)
    \/ \E i \in Instances, r \in ResultVals : RunStoreResult(i, r)
    \/ \E i \in Instances, jsondata \in NextItems :
          RunAddNextTask(i, jsondata)
    \/ \E i \in Instances : RunReturn(i)
    \/ \E i \in Instances : RunRaise(i)

\* the task life cycle, with the tasks cache enabled and in the packages
\* where a task module imports a task class of another one (for the names
\* A, B and Plain the package without such an import behaves as the one
\* that imports A as Q)
InitTask ==
    /\ Init
    /\ ENABLE_TASKS_CACHE
    /\ \E b1 \in Bindings(1), b2 \in Bindings(2) : Bound(b1) = Bound(b2)

SpecTask == InitTask /\ [][NextTask]_vars

Next == NextRegistry \/ NextTask

Spec == Init /\ [][Next]_vars

\* ------------------------------------------------------------------ claims
\* C1: a freshly constructed task has completed = false and get_result()
\* returns null; after a start() whose work routine returns, completed = true
\* and get_result() returns the stored result; after a start() whose work
\* routine raises, completed = false and the caller of start() gets the error.
C1_Lifecycle ==
    /\ (last.op = "new") =>
          /\ inst[last.i].done = PyFalse
          /\ get_result(inst[last.i]).ret = PyNone
    /\ (last.op = "start" /\ last.err = "none") =>
          /\ inst[last.i].pc = "idle"
          /\ inst[last.i].done = PyTrue
          /\ get_result(inst[last.i]).ret = inst[last.i].result
    /\ (last.op = "start" /\ last.err \notin {"none", "running"}) =>
          /\ inst[last.i].pc = "idle"
          /\ inst[last.i].done = PyFalse
          /\ get_result(inst[last.i]).ret = PyNone
          /\ last.err = "NotImplementedError"

\* a start() has returned and the work routine had stored a result
C1_Witness ==
    /\ last.op = "start"
    /\ last.err = "none"
    /\ inst[last.i].result = "r1"

\* C2 (as claimed): from_dict(t.to_dict()) of a completed instance t of a
\* registered type returns an instance with t's path, completed, priority
\* and result.
C2_RoundTrip ==
    (/\ last.op = "from_dict"
     /\ last.src # 0
     /\ inst[last.src].done = PyTrue
     /\ \E m \in Mods : inst[last.src].cls \in Bindings(m))
    => /\ last.err = "none"
       /\ inst[last.i].path = inst[last.src].path
       /\ inst[last.i].done = inst[last.src].done
       /\ inst[last.i].priority = inst[last.src].priority
       /\ inst[last.i].result = inst[last.src].result

\* C3 (as claimed): with caching enabled and after a first discovery, a newly
\* registered type is not in the result of find_tasks() and is in the result
\* of find_tasks(rebuild_cache=True).
C3_CacheStale ==
    [][(/\ ENABLE_TASKS_CACHE
        /\ discover_called
        /\ last.op = "register"
        /\ last.new
        /\ last'.op = "find_tasks"
        /\ last'.name = PyNone
        /\ last'.err = "none")
       => ((last.obj \in Range(last'.ret)) <=> last'.rebuild_cache)]_vars

\* C4 (as claimed): with caching enabled, a call of find_tasks that scans
\* (the first one, or one with rebuild_cache) leaves the complete scan in
\* _tasks_cache, also when it was given a name.
C4_CacheContent ==
    [][(/\ ENABLE_TASKS_CACHE
        /\ last'.op = "find_tasks"
        /\ last'.err = "none"
        /\ scan(PyNone) # <<>>
        /\ (IF last'.rebuild_cache THEN TRUE ELSE ~discover_called))
       => tasks_cache' = CacheOf(scan(PyNone))]_vars

\* C5 (as claimed): find_tasks(name) fails with the assertion when two or
\* more distinct task classes of that name are available, and otherwise
\* returns at most one class.
C5_AtMostOne ==
    (last.op = "find_tasks" /\ last.name # PyNone) =>
       IF Cardinality({o \in TaskClasses :
                         \E m \in Mods : \E b \in modules[m] :
                            Bound(b) = o /\ AttrName(b) = last.name}) >= 2
       THEN last.err = "AssertionError"
       ELSE last.err = "none" /\ Len(last.ret) <= 1

\* the declared pattern of class c matches the file type
Handles(c, filetype) ==
    /\ MAGIC_PATTERN(c) # NoPattern
    /\ re_match(MAGIC_PATTERN(c), filetype)

\* C6 (as claimed): whenever one of the discovered types matches the file
\* type, find_tasks_by_filetype(filetype, first_only=True) returns the name
\* of the first type whose can_handle is true and calls can_handle on no
\* later type.
C6_Original ==
    (/\ last.op = "find_tasks_by_filetype"
     /\ last.first_only
     /\ \E c \in Range(last.all_tasks) : Handles(c, last.filetype))
    => LET n == Len(last.invoked)
       IN /\ last.err = "none"
          /\ n \in 1 .. Len(last.all_tasks)
          /\ \A k \in 1 .. n : last.invoked[k].cls = last.all_tasks[k]
          /\ \A k \in 1 .. (n - 1) : last.invoked[k].ret = PyFalse
          /\ last.invoked[n].ret = PyTrue
          /\ last.ret = PyStr(ObjName(last.all_tasks[n]))

\* C6 (amended): find_tasks_by_filetype(filetype, first_only=True) calls
\* can_handle on the discovered types in discovery order and stops at the
\* first call that returns true or raises: when a call returns true it
\* returns that type's name and has called can_handle on no later type; when
\* a call raises (a type without MAGIC_PATTERN comes before any match) the
\* call fails with that error; when every call returns false it returns the
\* empty list.
C6_FirstMatch ==
    (last.op = "find_tasks_by_filetype" /\ last.first_only)
    => LET n == Len(last.invoked)
       IN /\ n <= Len(last.all_tasks)
          /\ \A k \in 1 .. n : last.invoked[k].cls = last.all_tasks[k]
          /\ \A k \in 1 .. (n - 1) : last.invoked[k].ret = PyFalse
          /\ (n > 0 /\ last.invoked[n].ret = PyTrue) =>
                /\ last.err = "none"
                /\ last.ret = PyStr(ObjName(last.all_tasks[n]))
          /\ (n > 0 /\ last.invoked[n].ret = "raise") =>
                /\ last.err = "AttributeError"
                /\ MAGIC_PATTERN(last.all_tasks[n]) = NoPattern
          /\ (IF n = 0 THEN TRUE ELSE last.invoked[n].ret = PyFalse) =>
                /\ n = Len(last.all_tasks)
                /\ last.err = "none"
                /\ last.ret = PyList(<<>>)

\* three discovered types match the file type and the first one is returned
\* after a single call of can_handle
C6_Witness ==
    /\ last.op = "find_tasks_by_filetype"
    /\ last.first_only
    /\ Len(last.all_tasks) >= 3
    /\ Cardinality({last.all_tasks[k] : k \in 1 .. 3}) = 3
    /\ \A k \in 1 .. 3 : Handles(last.all_tasks[k], last.filetype)
    /\ Len(last.invoked) = 1
    /\ last.ret = PyStr(ObjName(last.all_tasks[1]))

C8_ResultGating ==
    \A i \in Instances : (inst[i] # NoInst) =>
       /\ get_result(inst[i]).err = "none"
       /\ get_result(inst[i]).ret =
             (IF inst[i].done = PyTrue THEN inst[i].result ELSE PyNone)
       /\ get_result(inst[i]).self = inst[i]
       /\ (to_dict(inst[i]).ret.completed = PyFalse)
             => (to_dict(inst[i]).ret.result = PyNone)

\* get_result() was called on an instance that is not completed and still
\* stores a result
C8_Witness ==
    /\ last.op = "get_result"
    /\ inst[last.i].done = PyFalse
    /\ inst[last.i].result = "r1"

\* C9 (as claimed): no operation on an instance moves it out of completed,
\* nor out of failed.
C9_Original ==
    [][\A i \in Instances :
         /\ (last.op = "start" /\ last.i = i /\ last.err = "none")
               => inst'[i].done = PyTrue
         /\ (/\ last.op = "start"
             /\ last.i = i
             /\ last.err \notin {"none", "running"})
               => inst'[i].done = PyFalse]_vars

\* C9 (amended): get_result, add_next_task, get_next_tasks and to_dict leave
\* completed as it is, on a completed and on a failed instance alike; start()
\* and an assignment to done are the operations that change it.
C9_Terminal ==
    [][\A i \in Instances :
         (inst[i] # NoInst /\ inst'[i].done # inst[i].done)
           => (last'.op \in {"start", "done="} /\ last'.i = i)]_vars

\* add_next_task was called on a completed instance
C9_Witness ==
    /\ last.op = "add_next_task"
    /\ inst[last.i].done = PyTrue
    /\ inst[last.i].result = "r1"

\* C10: assigning a value that is no boolean to done raises and changes no
\* field; assigning a boolean sets completed to that value.
C10_DoneType ==
    [][\A i \in Instances :
         (last'.op = "done=" /\ last'.i = i /\ inst[i].pc = "idle")
           => IF type_of(last'.value) = "bool"
              THEN /\ last'.err = "none"
                   /\ inst'[i] = [inst[i] EXCEPT !.done = last'.value]
              ELSE /\ last'.err = "Exception"
                   /\ inst'[i] = inst[i]]_vars

\* the assignment done = 1 was refused on a completed instance
C10_Witness ==
    /\ last.op = "done="
    /\ last.value = "1"
    /\ last.err = "Exception"
    /\ inst[last.i].done = PyTrue

\* C11: can_handle on a task class without MAGIC_PATTERN raises for every
\* file type, and a find_tasks_by_filetype call that reaches such a class
\* fails with that error: it returns nothing and calls can_handle on no
\* further class.
C11_MissingPattern ==
    /\ \A c \in TaskClasses, s \in Filetypes :
          (MAGIC_PATTERN(c) = NoPattern)
             => /\ can_handle(c, s, rx).err = "AttributeError"
                /\ can_handle(c, s, rx).rx = rx
    /\ (last.op = "can_handle" /\ MAGIC_PATTERN(last.cls) = NoPattern)
          => last.err = "AttributeError"
    /\ (last.op = "find_tasks_by_filetype") =>
          \A k \in DOMAIN last.invoked :
             (MAGIC_PATTERN(last.invoked[k].cls) = NoPattern)
                => /\ last.err = "AttributeError"
                   /\ last.ret = NoValue
                   /\ last.invoked[k].ret = "raise"
                   /\ k = Len(last.invoked)

\* an exhaustive search passed a class that does not match, reached a class
\* without MAGIC_PATTERN and failed
C11_Witness ==
    /\ last.op = "find_tasks_by_filetype"
    /\ ~last.first_only
    /\ Len(last.invoked) >= 2
    /\ MAGIC_PATTERN(last.invoked[Len(last.invoked)].cls) = NoPattern
    /\ last.invoked[1].ret = PyTrue
    /\ last.err = "AttributeError"

\* C12: start() sets completed = false before it calls the work routine,
\* whatever completed was; completed becomes true only when the work routine
\* has returned, and start() then returns the same instance; when the work
\* routine raises, also on an instance that was completed, the instance ends
\* with completed = false and get_result() returns null while the stored
\* result is kept.
C12_StartResets ==
    [][\A i \in Instances :
         /\ (/\ inst[i].pc = "idle"
             /\ last'.op = "start"
             /\ last'.i = i
             /\ last'.err = "running")
               => inst'[i] = [inst[i] EXCEPT !.done = PyFalse,
                                             !.pc = "running"]
         /\ (inst[i].pc = "running" /\ inst'[i].done # PyFalse)
               => /\ last'.op = "start"
                  /\ last'.i = i
                  /\ last'.err = "none"
                  /\ last'.ret = i
                  /\ inst'[i] = [inst[i] EXCEPT !.done = PyTrue,
                                                !.pc = "idle"]
         /\ (/\ inst[i].pc = "running"
             /\ last'.op = "start"
             /\ last'.err \notin {"none", "running"})
               => /\ inst'[i].done = PyFalse
                  /\ get_result(inst'[i]).ret = PyNone
                  /\ inst'[i].result = inst[i].result]_vars

\* start() was called on a completed instance that stores a result, and the
\* work routine raised
C12_Witness ==
    /\ last.op = "start"
    /\ last.err = "NotImplementedError"
    /\ last.prior = PyTrue
    /\ inst[last.i].result = "r1"
    /\ inst[last.i].done = PyFalse

\* C13: from_dict(d) does not run the task: the instance it returns is idle,
\* has completed = d['completed'] (false if absent), result = d['result']
\* (null if absent), priority = d['priority'] (PRIO_NORMAL if absent),
\* path = d['path'] and an empty next_tasks, whatever d['next_tasks'] holds;
\* no other instance changes.
C13_Reconstruct ==
    [][(last'.op = "from_dict" /\ last'.err = "none" /\ inst[last'.i] = NoInst)
       => LET d == last'.taskdict
              t == inst'[last'.i]
          IN /\ t.pc = "idle"
             /\ t.done = dict_get(d, "completed", PyFalse)
             /\ t.result = dict_get(d, "result", PyNone)
             /\ t.priority = dict_get(d, "priority", PRIO_NORMAL)
             /\ t.path = d.path
             /\ t.next_tasks = <<>>
             /\ \A i \in Instances \ {last'.i} : inst'[i] = inst[i]]_vars

\* from_dict has returned an instance for a dict that is not completed and
\* carries a result and follow-up tasks
C13_Witness ==
    /\ last.op = "from_dict"
    /\ last.err = "none"
    /\ "next_tasks" \in DOMAIN last.taskdict
    /\ last.taskdict.next_tasks # <<>>
    /\ last.taskdict.completed = PyFalse
    /\ inst[last.i].result = "r1"
    /\ inst[last.i].done = PyFalse
    /\ inst[last.i].next_tasks = <<>>

\* C14 (as claimed): when discovery by name yields no class for d['name'],
\* or more than one, from_dict(d) raises and returns no instance; an instance
\* it returns is of the one class found, and that class is named d['name'].
C14_ExactlyOne ==
    (last.op = "from_dict") =>
       IF Len(scan(last.taskdict.name)) # 1
       THEN /\ last.err = (IF Len(scan(last.taskdict.name)) = 0
                           THEN "IndexError" ELSE "AssertionError")
            /\ inst[last.i] = NoInst
       ELSE (last.err = "none")
               => /\ inst[last.i].cls = scan(last.taskdict.name)[1]
                  /\ inst[last.i].name = last.taskdict.name

\* the names of the types of all_tasks whose declared pattern matches the
\* file type, in the order of all_tasks
HandlerNames(all_tasks, filetype) ==
    LET sel == SelectSeq(all_tasks, LAMBDA c : Handles(c, filetype))
    IN [k \in 1 .. Len(sel) |-> ObjName(sel[k])]

\* C15 (as claimed): find_tasks_by_filetype(filetype, first_only=False) calls
\* can_handle on every discovered type and returns the list of the names of
\* exactly the types that can handle the file type, in discovery order; when
\* every discovered type declares a pattern and the list is not empty, its
\* first element is what find_tasks_by_filetype(filetype, first_only=True)
\* returns for the same discovered types.
C15_Exhaustive ==
    (last.op = "find_tasks_by_filetype" /\ ~last.first_only)
    => /\ last.err = "none"
       /\ Len(last.invoked) = Len(last.all_tasks)
       /\ \A k \in DOMAIN last.invoked :
             last.invoked[k].cls = last.all_tasks[k]
       /\ last.ret = PyList(HandlerNames(last.all_tasks, last.filetype))
       /\ (/\ \A c \in Range(last.all_tasks) : MAGIC_PATTERN(c) # NoPattern
           /\ last.ret # PyList(<<>>))
             => find_tasks_by_filetype(last.filetype, TRUE).ret
                   = PyStr(last.ret[2][1])

\* the task classes available in the task modules: genuine types other than
\* BaseTask that derive from BaseTask
Available ==
    {Bound(b) : b \in UNION {modules[m] : m \in Mods}} \cap TaskClasses

\* C16 (as claimed): a find_tasks call that scans returns exactly the
\* available task classes, as they are at the time of the call, with caching
\* disabled and enabled alike; when a name is given, exactly those of them
\* whose name is that name, so every returned class is named as asked.
C16_ScanResult ==
    (last.op = "find_tasks" /\ last.err = "none")
    => IF last.name = PyNone
       THEN Range(last.ret) = Available
       ELSE /\ \A c \in Range(last.ret) : ObjName(c) = last.name
            /\ Range(last.ret) = {c \in Available : ObjName(c) = last.name}

\* C17 (as claimed): what cls.can_handle(s) returns depends only on the
\* pattern cls declares and on s, whatever can_handle calls were made before
\* on cls or on another class, a base class of cls included.
C17_Isolation ==
    (last.op = "can_handle" /\ last.err = "none")
    => (last.ret <=> re_match(MAGIC_PATTERN(last.cls), last.magic_string))

\* C18 (as claimed): the list find_tasks returns holds each task class at
\* most once, also when several task modules bind the class, and
\* find_tasks(name) does not fail with the assertion when a single class of
\* that name exists.
C18_NoDuplicates ==
    (last.op = "find_tasks") =>
       /\ (last.err = "none") => Cardinality(Range(last.ret)) = Len(last.ret)
       /\ (/\ last.name # PyNone
           /\ Cardinality({c \in Available : ObjName(c) = last.name}) <= 1)
             => last.err = "none"

\* C19: next_tasks is empty at construction; add_next_task appends one item
\* at the end and nothing else changes the queue (start, get_result,
\* get_next_tasks, to_dict and an assignment to done leave it as it is);
\* get_next_tasks returns one entry per queued item, in insertion order; and
\* a queue changes only through add_next_task on its own instance.
C19_Queue ==
    [][\A i \in Instances :
         /\ (inst[i] = NoInst /\ inst'[i] # NoInst)
               => inst'[i].next_tasks = <<>>
         /\ (inst[i] # NoInst /\ inst'[i].next_tasks # inst[i].next_tasks)
               => /\ \E jsondata \in NextItems :
                        inst'[i] = [inst[i] EXCEPT
                                      !.next_tasks = Append(@, jsondata)]
                  /\ IF inst[i].pc = "running" THEN last' = last
                     ELSE last'.op = "add_next_task" /\ last'.i = i
                  /\ \A j \in Instances \ {i} : inst'[j] = inst[j]
         /\ (last'.op = "get_next_tasks" /\ last'.i = i)
               => /\ inst'[i] = inst[i]
                  /\ DOMAIN get_next_tasks(inst[i]).ret
                        = DOMAIN inst[i].next_tasks
                  /\ \A k \in DOMAIN inst[i].next_tasks :
                        get_next_tasks(inst[i]).ret[k]
                           = json_dumps(inst[i].next_tasks[k])]_vars

\* add_next_task has queued a second, different follow-up on an instance
\* while another instance exists with an empty queue
C19_Witness ==
    /\ last.op = "add_next_task"
    /\ Len(inst[last.i].next_tasks) = 2
    /\ inst[last.i].next_tasks[1] # inst[last.i].next_tasks[2]
    /\ \E j \in Instances \ {last.i} :
          inst[j] # NoInst /\ inst[j].next_tasks = <<>>

\* C20: the name, the path and the priority of a task instance keep the
\* values it was constructed with through start() (returning or raising),
\* get_result(), assignments to done, add_next_task(), get_next_tasks(),
\* to_dict() and to_json().
C20_IdentityFixed ==
    [][\A i \in Instances :
         (inst[i] # NoInst)
           => /\ inst'[i].cls = inst[i].cls
              /\ inst'[i].name = inst[i].name
              /\ inst'[i].path = inst[i].path
              /\ inst'[i].priority = inst[i].priority]_vars

\* to_json() was called on an instance constructed with a priority other
\* than the default, after a start() that returned and with a follow-up
\* queued
C20_Witness ==
    /\ last.op = "to_json"
    /\ inst[last.i].priority = PRIO_HIGH
    /\ inst[last.i].path = "/b"
    /\ inst[last.i].done = PyTrue
    /\ inst[last.i].result = "r1"
    /\ inst[last.i].next_tasks # <<>>

====
